---------------------------- MODULE Spec2Model ----------------------------
(***************************************************************************)
(* Model of the CI/CD pipeline assistant: the log extractor and summary    *)
(* builder of log_processor.py, the event normalizer, the marker extractor *)
(* and process_event_sync of process_event.py, and the webhook handler of  *)
(* server.py.  Strings are TLA+ strings; a character of a string s is      *)
(* SubSeq(s, i, i).                                                        *)
(***************************************************************************)
EXTENDS Integers, Sequences, FiniteSets, TLC

VARIABLES pc,          \* "start" before the call under study, "done" after it
          log,         \* argument log of log_processor.extract_error_blocks
          max_blocks,  \* argument max_blocks of extract_error_blocks
          blocks_out,  \* list returned by extract_error_blocks
          payload,     \* argument of process_event.normalize_event
          event_out,   \* outcome of normalize_event: a record or an exception
          blocks_in,   \* argument blocks of log_processor.make_summary
          summary_out, \* string returned by make_summary
          log_text,    \* argument of process_event.extract_error_blocks
          snippet_out, \* string returned by process_event.extract_error_blocks
          env,         \* the configuration read from the environment at import
          request,     \* header X-Hub-Signature-256 and raw body of the POST /webhook
          hpc,         \* position of the webhook handler
          response,    \* HTTP response of the webhook handler
          parsed,      \* payload, the result of request.json()
          task,        \* state of the task made by asyncio.create_task
          event,       \* argument event of process_event_sync
          ppc,         \* position of process_event_sync
          ev,          \* local e of process_event_sync, the normalized event
          snippet,     \* local snippet of process_event_sync
          analysis,    \* local analysis of process_event_sync
          calls,       \* calls of the collaborators made so far, in order
          result       \* outcome of process_event_sync: returned value or exception

unitVars == <<log, max_blocks, blocks_out, payload, event_out, blocks_in, summary_out>>
snippetVars == <<log_text, snippet_out>>

fixedVars == <<pc, log, max_blocks, blocks_out, payload, event_out, blocks_in, summary_out,
               log_text, snippet_out, env>>
serverVars == <<request, hpc, response, parsed, task>>
processVars == <<event, ppc, ev, snippet, analysis, calls, result>>
pipeVars == <<env, request, hpc, response, parsed, task,
              event, ppc, ev, snippet, analysis, calls, result>>

vars == <<pc, log, max_blocks, blocks_out, payload, event_out, blocks_in, summary_out,
          log_text, snippet_out, env, request, hpc, response, parsed, task,
          event, ppc, ev, snippet, analysis, calls, result>>

(***************************************************************************)
(* Bounds of the explored inputs.                                          *)
(***************************************************************************)
MaxLogPieces == 4      \* a log body is made of at most this many pieces
MaxFillBodyPieces == 2 \* as above, for a body that is padded with filler lines
MaxSummaryBlocks == 3  \* make_summary is given at most this many blocks
MaxMarkPieces == 3     \* a log text is made of at most this many pieces
MaxPadBodyPieces == 1  \* as above, for a log text that is padded to 16000 characters

(***************************************************************************)
(* Python string builtins used by log_processor.py.                        *)
(***************************************************************************)
Char(s, i) == SubSeq(s, i, i)

WHITESPACE == {" ", "\n", "\t", "\r"}

\* str.strip(): drop leading and trailing whitespace
strip(s) ==
  IF \A i \in 1..Len(s) : Char(s, i) \in WHITESPACE THEN ""
  ELSE LET lo == CHOOSE i \in 1..Len(s) :
                    /\ Char(s, i) \notin WHITESPACE
                    /\ \A j \in 1..(i - 1) : Char(s, j) \in WHITESPACE
           hi == CHOOSE i \in 1..Len(s) :
                    /\ Char(s, i) \notin WHITESPACE
                    /\ \A j \in (i + 1)..Len(s) : Char(s, j) \in WHITESPACE
       IN SubSeq(s, lo, hi)

\* the pieces of s[lo..hi] between line feeds (halving keeps evaluation shallow)
RECURSIVE SplitNL(_, _, _)
SplitNL(s, lo, hi) ==
  IF lo > hi THEN <<"">>
  ELSE IF lo = hi THEN (IF Char(s, lo) = "\n" THEN <<"", "">> ELSE <<Char(s, lo)>>)
  ELSE LET mid == (lo + hi) \div 2
           l == SplitNL(s, lo, mid)
           r == SplitNL(s, mid + 1, hi)
       IN SubSeq(l, 1, Len(l) - 1) \o <<l[Len(l)] \o r[1]>> \o Tail(r)

\* str.splitlines(): the lines of s, no empty last line after a final line feed
splitlines(s) ==
  LET p == SplitNL(s, 1, Len(s))
  IN IF p[Len(p)] = "" THEN SubSeq(p, 1, Len(p) - 1) ELSE p

\* sep.join(l[lo..hi])
RECURSIVE JoinRange(_, _, _, _)
JoinRange(sep, l, lo, hi) ==
  IF lo > hi THEN ""
  ELSE IF lo = hi THEN l[lo]
  ELSE LET mid == (lo + hi) \div 2
       IN JoinRange(sep, l, lo, mid) \o sep \o JoinRange(sep, l, mid + 1, hi)

join(sep, l) == JoinRange(sep, l, 1, Len(l))

\* l[-n:]
LastN(l, n) == IF Len(l) <= n THEN l ELSE SubSeq(l, Len(l) - n + 1, Len(l))

\* l[:n] of a string
FirstN(s, n) == IF Len(s) <= n THEN s ELSE SubSeq(s, 1, n)

(***************************************************************************)
(* log_processor.ERROR_PATTERNS.  Each pattern is a literal marker, a      *)
(* lazy body of at least minBody characters ([\s\S]+? or (?s).*?) and the  *)
(* terminator (?:\n\n|\Z); group 1 is marker plus body.                    *)
(***************************************************************************)
TRACEBACK_MARK == "Traceback (most recent call last):"
ERROR_MARK == "ERROR:"
EXCEPTION_MARK == "Exception:"

ERROR_PATTERNS ==
  << [mark |-> TRACEBACK_MARK, minBody |-> 1],
     [mark |-> ERROR_MARK, minBody |-> 0],
     [mark |-> EXCEPTION_MARK, minBody |-> 0] >>

\* the literal m occurs in s at index i
StartsAt(s, i, m) ==
  /\ i >= 1
  /\ i + Len(m) - 1 <= Len(s)
  /\ SubSeq(s, i, i + Len(m) - 1) = m

\* leftmost index >= pos where pat matches, 0 when there is none: the marker
\* must be followed by minBody characters; \Z then always ends the match
FindFrom(s, pat, pos) ==
  LET last == Len(s) - Len(pat.mark) - pat.minBody + 1
      C == {i \in pos..last : StartsAt(s, i, pat.mark)}
  IN IF C = {} THEN 0 ELSE CHOOSE i \in C : \A j \in C : i <= j

\* the terminator (?:\n\n|\Z) matches right after index e
TerminatorAfter(s, e) == e = Len(s) \/ StartsAt(s, e + 1, "\n\n")

\* index of the last character of group 1 for the match starting at i:
\* the lazy body stops at the first place the terminator matches
GroupEnd(s, pat, i) ==
  LET lo == i + Len(pat.mark) - 1 + pat.minBody
  IN CHOOSE e \in lo..Len(s) :
       /\ TerminatorAfter(s, e)
       /\ \A e2 \in lo..(e - 1) : ~TerminatorAfter(s, e2)

\* pat.finditer(s): group 1 of the successive non-overlapping matches
RECURSIVE finditer(_, _, _)
finditer(s, pat, pos) ==
  LET i == FindFrom(s, pat, pos)
  IN IF i = 0 THEN <<>>
     ELSE LET ge == GroupEnd(s, pat, i)
              nxt == IF ge = Len(s) THEN Len(s) + 1 ELSE ge + 3
          IN <<SubSeq(s, i, ge)>> \o finditer(s, pat, nxt)

(***************************************************************************)
(* log_processor.extract_error_blocks                                      *)
(***************************************************************************)
TAIL_LINES == 500
DEFAULT_MAX_BLOCKS == 5

\* l[:n] of a list
FirstItems(l, n) == IF Len(l) <= n THEN l ELSE SubSeq(l, 1, n)

\* slip: the fallback keeps the head of the log instead of its tail
TailFallback_Head(s) == << join("\n", FirstItems(splitlines(s), TAIL_LINES)) >>

\* the fallback of line 18-19: the last TAIL_LINES lines as one block
TailFallback(s) == << join("\n", LastN(splitlines(s), TAIL_LINES)) >>

\* slip: the cap is tested with > instead of >=
RECURSIVE InnerLoop_OffByOne(_, _, _)
InnerLoop_OffByOne(ms, blocks, mb) ==
  IF ms = <<>> THEN [returned |-> FALSE, blocks |-> blocks]
  ELSE LET b2 == Append(blocks, strip(Head(ms)))
       IN IF Len(b2) > mb THEN [returned |-> TRUE, blocks |-> b2]
          ELSE InnerLoop_OffByOne(Tail(ms), b2, mb)

\* the inner loop over the matches ms of one pattern
RECURSIVE InnerLoop(_, _, _)
InnerLoop(ms, blocks, mb) ==
  IF ms = <<>> THEN [returned |-> FALSE, blocks |-> blocks]
  ELSE LET b2 == Append(blocks, strip(Head(ms)))
       IN IF Len(b2) >= mb THEN [returned |-> TRUE, blocks |-> b2]
          ELSE InnerLoop(Tail(ms), b2, mb)

\* slip: the pattern classes are tried from the last to the first
RECURSIVE OuterLoop_Reversed(_, _, _, _)
OuterLoop_Reversed(s, p, blocks, mb) ==
  IF p > Len(ERROR_PATTERNS) THEN [returned |-> FALSE, blocks |-> blocks]
  ELSE LET r == InnerLoop(finditer(s, ERROR_PATTERNS[Len(ERROR_PATTERNS) + 1 - p], 1),
                          blocks, mb)
       IN IF r.returned THEN r ELSE OuterLoop_Reversed(s, p + 1, r.blocks, mb)

\* the outer loop over ERROR_PATTERNS from pattern p on
RECURSIVE OuterLoop(_, _, _, _)
OuterLoop(s, p, blocks, mb) ==
  IF p > Len(ERROR_PATTERNS) THEN [returned |-> FALSE, blocks |-> blocks]
  ELSE LET r == InnerLoop(finditer(s, ERROR_PATTERNS[p], 1), blocks, mb)
       IN IF r.returned THEN r ELSE OuterLoop(s, p + 1, r.blocks, mb)

extract_error_blocks(s, mb) ==
  LET r == OuterLoop(s, 1, <<>>, mb)
  IN IF r.returned THEN r.blocks ELSE TailFallback(s)

(***************************************************************************)
(* Structured (JSON-like) values as Python holds them after json parsing:  *)
(* None, bool, int, str, list and dict.  A dict is the list of its         *)
(* (key, value) items in insertion order.                                  *)
(***************************************************************************)
JNull == [t |-> "null", v |-> 0]
JBool(b) == [t |-> "bool", v |-> b]
JInt(n) == [t |-> "int", v |-> n]
JStr(s) == [t |-> "str", v |-> s]
JList(l) == [t |-> "list", v |-> l]
JDict(items) == [t |-> "dict", v |-> items]

\* isinstance(x, dict)
IsDict(x) == x.t = "dict"

\* k in d
Has(d, k) == \E i \in 1..Len(d.v) : d.v[i][1] = k

\* d.get(k, dflt)
GetDefault(d, k, dflt) ==
  IF Has(d, k) THEN (d.v[CHOOSE i \in 1..Len(d.v) : d.v[i][1] = k])[2] ELSE dflt

\* d.get(k)
Get(d, k) == GetDefault(d, k, JNull)

\* bool(x)
Truthy(x) ==
  CASE x.t = "null" -> FALSE
    [] x.t = "bool" -> x.v
    [] x.t = "int" -> x.v # 0
    [] x.t = "str" -> x.v # ""
    [] x.t = "list" -> x.v # <<>>
    [] x.t = "dict" -> x.v # <<>>

\* a or b
Or(a, b) == IF Truthy(a) THEN a ELSE b

DIGITS == <<"0", "1", "2", "3", "4", "5", "6", "7", "8", "9">>

RECURSIVE NatToStr(_)
NatToStr(n) ==
  IF n < 10 THEN DIGITS[n + 1] ELSE NatToStr(n \div 10) \o DIGITS[(n % 10) + 1]

\* str(n) of an int
IntToStr(n) == IF n < 0 THEN "-" \o NatToStr(-n) ELSE NatToStr(n)

\* the escapes json.dumps writes inside a string (ASCII text)
JsonEscapeChar(c) ==
  CASE c = "\"" -> "\\\""
    [] c = "\\" -> "\\\\"
    [] c = "\n" -> "\\n"
    [] c = "\t" -> "\\t"
    [] c = "\r" -> "\\r"
    [] OTHER -> c

RECURSIVE JsonEscape(_)
JsonEscape(s) ==
  IF s = "" THEN "" ELSE JsonEscapeChar(Char(s, 1)) \o JsonEscape(SubSeq(s, 2, Len(s)))

HasChar(s, c) == \E i \in 1..Len(s) : Char(s, i) = c

\* the escapes repr() writes inside a string quoted with q (ASCII text)
ReprEscapeChar(c, q) ==
  CASE c = q -> "\\" \o q
    [] c = "\\" -> "\\\\"
    [] c = "\n" -> "\\n"
    [] c = "\t" -> "\\t"
    [] c = "\r" -> "\\r"
    [] OTHER -> c

RECURSIVE ReprEscape(_, _)
ReprEscape(s, q) ==
  IF s = "" THEN "" ELSE ReprEscapeChar(Char(s, 1), q) \o ReprEscape(SubSeq(s, 2, Len(s)), q)

\* repr(s) of a str: single quotes unless s has a ' and no "
ReprStr(s) ==
  LET q == IF HasChar(s, "'") /\ ~HasChar(s, "\"") THEN "\"" ELSE "'"
  IN q \o ReprEscape(s, q) \o q

\* repr(x)
RECURSIVE py_repr(_)
py_repr(x) ==
  CASE x.t = "null" -> "None"
    [] x.t = "bool" -> (IF x.v THEN "True" ELSE "False")
    [] x.t = "int" -> IntToStr(x.v)
    [] x.t = "str" -> ReprStr(x.v)
    [] x.t = "list" ->
         "[" \o join(", ", [i \in 1..Len(x.v) |-> py_repr(x.v[i])]) \o "]"
    [] x.t = "dict" ->
         "{" \o join(", ", [i \in 1..Len(x.v) |->
                  ReprStr(x.v[i][1]) \o ": " \o py_repr(x.v[i][2])]) \o "}"

\* str(x)
py_str(x) == IF x.t = "str" THEN x.v ELSE py_repr(x)

\* json.dumps(x) with the default separators
RECURSIVE json_dumps(_)
json_dumps(x) ==
  CASE x.t = "null" -> "null"
    [] x.t = "bool" -> (IF x.v THEN "true" ELSE "false")
    [] x.t = "int" -> IntToStr(x.v)
    [] x.t = "str" -> "\"" \o JsonEscape(x.v) \o "\""
    [] x.t = "list" ->
         "[" \o join(", ", [i \in 1..Len(x.v) |-> json_dumps(x.v[i])]) \o "]"
    [] x.t = "dict" ->
         "{" \o join(", ", [i \in 1..Len(x.v) |->
                  "\"" \o JsonEscape(x.v[i][1]) \o "\": " \o json_dumps(x.v[i][2])]) \o "}"

(***************************************************************************)
(* process_event.normalize_event.  The outcome of a call is the returned   *)
(* record or the exception that escapes.                                   *)
(***************************************************************************)
Return(e) == [raised |-> FALSE, exc |-> "", event |-> e]
Raise(x) == [raised |-> TRUE, exc |-> x, event |-> JNull]
NoOutcome == [raised |-> FALSE, exc |-> "", event |-> JNull]

\* slip: the plain url is preferred to full_url
JenkinsBranch_UrlFirst(p) ==
  LET build == GetDefault(p, "build", JDict(<<>>))
  IN IF ~IsDict(build) THEN Raise("AttributeError")
     ELSE Return([source |-> "jenkins",
                  status |-> Get(build, "status"),
                  url |-> Or(Get(build, "url"), Get(build, "full_url")),
                  logs |-> Or(Get(build, "logs"), JStr("")),
                  metadata |-> p])

\* lines 43-51: build.get on a value that is no dict raises AttributeError
JenkinsBranch(p) ==
  LET build == GetDefault(p, "build", JDict(<<>>))
  IN IF ~IsDict(build) THEN Raise("AttributeError")
     ELSE Return([source |-> "jenkins",
                  status |-> Get(build, "status"),
                  url |-> Or(Get(build, "full_url"), Get(build, "url")),
                  logs |-> Or(Get(build, "logs"), JStr("")),
                  metadata |-> p])

\* slip: a logs field of the payload is passed on
GithubBranch_PayloadLogs(p) ==
  LET run == GetDefault(p, "workflow_run", JDict(<<>>))
  IN IF ~IsDict(run) THEN Raise("AttributeError")
     ELSE Return([source |-> "github",
                  status |-> Get(p, "action"),
                  url |-> Get(run, "html_url"),
                  logs |-> Or(Get(p, "logs"), JStr("")),
                  metadata |-> p])

\* lines 54-62: run.get on a value that is no dict raises AttributeError
GithubBranch(p) ==
  LET run == GetDefault(p, "workflow_run", JDict(<<>>))
  IN IF ~IsDict(run) THEN Raise("AttributeError")
     ELSE Return([source |-> "github",
                  status |-> Get(p, "action"),
                  url |-> Get(run, "html_url"),
                  logs |-> JStr(""),
                  metadata |-> p])

\* slip: str(payload) instead of json.dumps(payload), as server.py line 141 has it
FallbackBranch_Str(p) ==
  Return([source |-> "unknown", status |-> JNull, url |-> JNull,
          logs |-> JStr(py_str(p)), metadata |-> p])

\* line 65
FallbackBranch(p) ==
  Return([source |-> "unknown", status |-> JNull, url |-> JNull,
          logs |-> JStr(json_dumps(p)), metadata |-> p])

\* lines 40-41
NonDictBranch(p) ==
  Return([source |-> "unknown", status |-> JNull, url |-> JNull,
          logs |-> JStr(py_str(p)), metadata |-> p])

normalize_event(p) ==
  IF ~IsDict(p) THEN NonDictBranch(p)
  ELSE IF Has(p, "build") THEN JenkinsBranch(p)
  ELSE IF Has(p, "workflow_run") THEN GithubBranch(p)
  ELSE FallbackBranch(p)

(***************************************************************************)
(* Values of the variables a specification does not use.                   *)
(***************************************************************************)
UnitIdle ==
  /\ log = ""
  /\ max_blocks = DEFAULT_MAX_BLOCKS
  /\ blocks_out = <<>>
  /\ payload = JNull
  /\ event_out = NoOutcome
  /\ blocks_in = <<>>
  /\ summary_out = ""

SnippetIdle ==
  /\ log_text = ""
  /\ snippet_out = ""

\* os.getenv of a variable that is not set
Unset == ""

NoEnv ==
  [SKIP_SIGNATURE |-> FALSE, WEBHOOK_SECRET |-> Unset, JENKINS_USER |-> Unset,
   JENKINS_API_TOKEN |-> Unset, SLACK_WEBHOOK |-> Unset, GITHUB_TOKEN |-> Unset,
   GITHUB_REPO |-> Unset]

NoRequest == [header |-> JNull, body |-> ""]
NoResponse == [status |-> 0, body |-> JNull]
NoEvent == [source |-> "", status |-> JNull, url |-> JNull, logs |-> JNull,
            metadata |-> JNull]

ServerIdle ==
  /\ request = NoRequest
  /\ hpc = "off"
  /\ response = NoResponse
  /\ parsed = JNull
  /\ task = "none"

ProcessIdle ==
  /\ event = JNull
  /\ ppc = "off"
  /\ ev = NoEvent
  /\ snippet = ""
  /\ analysis = JNull
  /\ calls = <<>>
  /\ result = NoOutcome

PipeIdle ==
  /\ env = NoEnv
  /\ ServerIdle
  /\ ProcessIdle

(***************************************************************************)
(* Inputs of the extractor: a body of up to MaxLogPieces pieces followed   *)
(* by a run of plain filler lines.                                         *)
(***************************************************************************)
LogPieces == {TRACEBACK_MARK, ERROR_MARK, EXCEPTION_MARK, "\n", "a"}
FILL_LINE == "a\n"
MaxBlocksValues == {0, 1, 2, DEFAULT_MAX_BLOCKS}

RECURSIVE Rep(_, _)
Rep(s, k) ==
  IF k = 0 THEN ""
  ELSE LET h == Rep(s, k \div 2)
       IN IF k % 2 = 0 THEN h \o h ELSE h \o h \o s

RECURSIVE Flatten(_)
Flatten(f) == IF Len(f) = 0 THEN "" ELSE Head(f) \o Flatten(Tail(f))

\* the log of the repository's unit test
TEST_LOG == "some output\nTraceback (most recent call last):\n  File \"a.py\", line 1, in <module>\nException: boom\n\n"

\* the bodies of at most n pieces
Bodies(n) == UNION {{Flatten(f) : f \in [1..m -> LogPieces]} : m \in 0..n}

\* TAIL_LINES filler lines, so that one more line exceeds the tail
Filler == Rep(FILL_LINE, TAIL_LINES)

InitExtract ==
  /\ pc = "start"
  /\ \/ log \in Bodies(MaxLogPieces)
     \/ \E b \in Bodies(MaxFillBodyPieces) : log = b \o Filler
     \/ \E b \in Bodies(MaxFillBodyPieces) : log = Filler \o b
     \/ log = TEST_LOG
  /\ max_blocks \in MaxBlocksValues
  /\ blocks_out = <<>>
  /\ payload = JNull
  /\ event_out = NoOutcome
  /\ blocks_in = <<>>
  /\ summary_out = ""
  /\ SnippetIdle
  /\ PipeIdle

\* one call of extract_error_blocks(log, max_blocks)
ExtractCall ==
  /\ pc = "start"
  /\ blocks_out' = extract_error_blocks(log, max_blocks)
  /\ pc' = "done"
  /\ UNCHANGED <<log, max_blocks, payload, event_out, blocks_in, summary_out>>
  /\ UNCHANGED snippetVars
  /\ UNCHANGED pipeVars

NextExtract == ExtractCall

SpecExtract == InitExtract /\ [][NextExtract]_vars


(***************************************************************************)
(* Properties of extract_error_blocks.                                     *)
(***************************************************************************)
\* sub occurs somewhere in s
Contains(s, sub) == \E i \in 1..(Len(s) - Len(sub) + 1) : StartsAt(s, i, sub)

\* the trimmed matches of all pattern classes, in priority order
MatchedBlocks(s) ==
  LET all == finditer(s, ERROR_PATTERNS[1], 1) \o finditer(s, ERROR_PATTERNS[2], 1)
               \o finditer(s, ERROR_PATTERNS[3], 1)
  IN [k \in 1..Len(all) |-> strip(all[k])]

\* the traceback line occurs in s and is followed by further text
HasTracebackBlock(s) ==
  \E i \in 1..Len(s) : StartsAt(s, i, TRACEBACK_MARK) /\ i + Len(TRACEBACK_MARK) <= Len(s)

\* no pattern class matches anywhere in s
NoPatternMatches(s) ==
  /\ ~Contains(s, ERROR_MARK)
  /\ ~Contains(s, EXCEPTION_MARK)
  /\ ~HasTracebackBlock(s)

\* s without one final line feed
Chomp(s) ==
  IF Len(s) > 0 /\ Char(s, Len(s)) = "\n" THEN SubSeq(s, 1, Len(s) - 1) ELSE s

LineFeeds(s) == Cardinality({i \in 1..Len(s) : Char(s, i) = "\n"})

NumLines(s) == IF s = "" THEN 0 ELSE LineFeeds(Chomp(s)) + 1

\* r is the last n lines of s joined by line feeds (all of them when s has
\* at most n lines)
IsLastLines(r, s, n) ==
  IF NumLines(s) <= n THEN r = Chomp(s)
  ELSE LET c == Chomp(s)
           k == Len(c) - Len(r)
       IN /\ k >= 1
          /\ SubSeq(c, k + 1, Len(c)) = r
          /\ Char(c, k) = "\n"
          /\ LineFeeds(r) = n - 1

\* C1 as stated: for every integer max_blocks the result has at most
\* max_blocks elements, and at least one element for a non-empty log.
C1_AtMostMaxBlocks_AnyInteger ==
  pc = "done" =>
    /\ Len(blocks_out) <= max_blocks
    /\ (log # "" => Len(blocks_out) >= 1)

\* C1 amended: for every max_blocks >= 1 the result has at most max_blocks
\* elements, and at least one element for a non-empty log.
C1_AtMostMaxBlocks ==
  (pc = "done" /\ max_blocks >= 1) =>
    /\ Len(blocks_out) <= max_blocks
    /\ (log # "" => Len(blocks_out) >= 1)

\* C1 witness: a call that stopped at a cap of two blocks
C1_Witness ==
  /\ pc = "done"
  /\ max_blocks = 2
  /\ Len(MatchedBlocks(log)) > 2
  /\ Len(blocks_out) = 2

\* C2: the tail fallback is returned only when no pattern class matched;
\* whenever a class matched, also with fewer than max_blocks matches in all,
\* the result is the list of trimmed matched blocks (up to the cap).
C2_FallbackOnlyWithoutMatch ==
  (pc = "done" /\ max_blocks >= 1) =>
    IF MatchedBlocks(log) = <<>>
    THEN blocks_out = TailFallback(log)
    ELSE blocks_out = FirstItems(MatchedBlocks(log), max_blocks)

\* C3: for every log that contains a traceback block,
\* extract_error_blocks(log) returns at least one block and its first block
\* contains the substring Traceback.
C3_FirstBlockHasTraceback ==
  (pc = "done" /\ max_blocks = DEFAULT_MAX_BLOCKS /\ HasTracebackBlock(log)) =>
    /\ Len(blocks_out) >= 1
    /\ Contains(blocks_out[1], "Traceback")

\* C10: when no pattern class matches, the result is exactly one block, the
\* last 500 lines of the log joined by line feeds (all lines when there are
\* fewer); the empty log gives the list holding the empty string.
C10_TailFallback ==
  (pc = "done" /\ NoPatternMatches(log)) =>
    /\ Len(blocks_out) = 1
    /\ IsLastLines(blocks_out[1], log, TAIL_LINES)
    /\ (log = "" => blocks_out = <<"">>)

\* C10 witness: a log without markers that has more than 500 lines
C10_Witness ==
  /\ pc = "done"
  /\ NoPatternMatches(log)
  /\ NumLines(log) > TAIL_LINES
  /\ Len(blocks_out) = 1
  /\ NumLines(blocks_out[1]) = TAIL_LINES


(***************************************************************************)
(* Inputs of the normalizer: webhook payloads in the Jenkins shape, the    *)
(* GitHub workflow_run shape, neither, and values that are no mapping.     *)
(***************************************************************************)
Absent == [t |-> "absent", v |-> 0]

\* the item (k, x) unless x is Absent
Opt(k, x) == IF x = Absent THEN <<>> ELSE << <<k, x>> >>

StatusValues == {Absent, JStr("FAILURE")}
FullUrlValues == {Absent, JNull, JStr(""), JStr("http://ci/job/t/1/full")}
UrlValues == {Absent, JStr("http://ci/job/t/1/")}
LogsValues == {Absent, JNull, JStr(""), JStr("ERROR: boom\n"), JInt(0), JInt(7),
               JList(<<JStr("x")>>)}

BuildDicts ==
  {JDict(Opt("status", st) \o Opt("full_url", fu) \o Opt("url", u) \o Opt("logs", lg)) :
     st \in StatusValues, fu \in FullUrlValues, u \in UrlValues, lg \in LogsValues}

BuildValues == {Absent, JNull, JStr("b"), JInt(3), JList(<<>>)} \cup BuildDicts

RunValues ==
  {Absent, JNull, JStr("w"), JDict(<<>>),
   JDict(<< <<"html_url", JStr("http://gh/runs/9")>> >>),
   JDict(<< <<"id", JInt(9)>>, <<"html_url", JStr("http://gh/runs/9")>>,
            <<"logs", JStr("run log")>> >>)}

ActionValues == {Absent, JStr("completed")}
TopLogsValues == {Absent, JStr("Traceback in payload")}

DictPayloads ==
  {JDict(Opt("action", a) \o Opt("build", b) \o Opt("workflow_run", r) \o Opt("logs", tl)) :
     a \in ActionValues, b \in BuildValues, r \in RunValues, tl \in TopLogsValues}

OtherPayloads ==
  {JNull, JBool(TRUE), JBool(FALSE), JInt(0), JInt(-120), JStr(""), JStr("plain text"),
   JStr("it's"), JStr("a 'b' \"c\"\n"), JList(<<>>),
   JList(<<JInt(1), JStr("a"), JNull, JBool(FALSE), JDict(<< <<"k", JStr("it's")>> >>)>>),
   JDict(<< <<"logs", JStr("x")>>, <<"action", JStr("opened")>> >>),
   JDict(<< <<"ref", JStr("refs/heads/main")>>,
            <<"commits", JList(<<JDict(<< <<"id", JInt(42)>>, <<"ok", JBool(TRUE)>> >>)>>)>>,
            <<"note", JStr("say \"hi\"\n\\o/")>>, <<"head", JNull>> >>)}

InitNormalize ==
  /\ pc = "start"
  /\ payload \in DictPayloads \cup OtherPayloads
  /\ event_out = NoOutcome
  /\ log = ""
  /\ max_blocks = DEFAULT_MAX_BLOCKS
  /\ blocks_out = <<>>
  /\ blocks_in = <<>>
  /\ summary_out = ""
  /\ SnippetIdle
  /\ PipeIdle

\* one call of normalize_event(payload)
NormalizeCall ==
  /\ pc = "start"
  /\ event_out' = normalize_event(payload)
  /\ pc' = "done"
  /\ UNCHANGED <<payload, log, max_blocks, blocks_out, blocks_in, summary_out>>
  /\ UNCHANGED snippetVars
  /\ UNCHANGED pipeVars

NextNormalize == NormalizeCall

SpecNormalize == InitNormalize /\ [][NextNormalize]_vars

(***************************************************************************)
(* Properties of normalize_event.                                          *)
(***************************************************************************)
\* the payload is a mapping with a build key whose value is a mapping
JenkinsShaped(p) == IsDict(p) /\ Has(p, "build") /\ IsDict(Get(p, "build"))

\* the payload is a mapping with a workflow_run mapping and no build key
GithubShaped(p) ==
  IsDict(p) /\ ~Has(p, "build") /\ Has(p, "workflow_run") /\ IsDict(Get(p, "workflow_run"))

\* the payload lacks both keys, or is no mapping at all
UnknownShaped(p) == ~IsDict(p) \/ (~Has(p, "build") /\ ~Has(p, "workflow_run"))

\* d has the field k with a value other than null
Present(d, k) == Has(d, k) /\ Get(d, k) # JNull

\* C4: normalize_event is total: for every structured input, also when the
\* build or workflow_run value is null, a string, a number or a list, it
\* returns a canonical record and raises no exception.
C4_NormalizeTotal ==
  pc = "done" =>
    /\ ~event_out.raised
    /\ event_out.event.source \in {"jenkins", "github", "unknown"}

\* C5 as stated: on a Jenkins-shaped payload, source = jenkins, status =
\* build.status, url = build.full_url when full_url is present and otherwise
\* build.url, logs = build.logs or the empty string.
C5_JenkinsFields_Present ==
  (pc = "done" /\ JenkinsShaped(payload)) =>
    LET build == Get(payload, "build")
    IN /\ ~event_out.raised
       /\ event_out.event.source = "jenkins"
       /\ event_out.event.status = Get(build, "status")
       /\ event_out.event.url =
            (IF Present(build, "full_url") THEN Get(build, "full_url") ELSE Get(build, "url"))
       /\ event_out.event.logs = Or(Get(build, "logs"), JStr(""))

\* C5 amended: on a Jenkins-shaped payload, source = jenkins, status =
\* build.status, url = build.full_url when that is truthy and otherwise
\* build.url, logs = build.logs when that is truthy and otherwise "".
C5_JenkinsFields ==
  (pc = "done" /\ JenkinsShaped(payload)) =>
    LET build == Get(payload, "build")
    IN /\ ~event_out.raised
       /\ event_out.event.source = "jenkins"
       /\ event_out.event.status = Get(build, "status")
       /\ event_out.event.url =
            (IF Truthy(Get(build, "full_url")) THEN Get(build, "full_url")
             ELSE Get(build, "url"))
       /\ event_out.event.logs =
            (IF Truthy(Get(build, "logs")) THEN Get(build, "logs") ELSE JStr(""))

\* C5 witness: a payload with both a build and a workflow_run mapping whose
\* build has a non-empty full_url and a different url
C5_Witness ==
  /\ pc = "done"
  /\ JenkinsShaped(payload)
  /\ Has(payload, "workflow_run")
  /\ Truthy(Get(Get(payload, "build"), "full_url"))
  /\ Truthy(Get(Get(payload, "build"), "url"))
  /\ Get(Get(payload, "build"), "url") # Get(Get(payload, "build"), "full_url")
  /\ event_out.event.url = Get(Get(payload, "build"), "full_url")

\* C6: on a payload with a workflow_run mapping and no build key, source =
\* github, status = the action field, url = workflow_run.html_url and logs
\* = "", whatever log-like fields the payload carries.
C6_GithubFields ==
  (pc = "done" /\ GithubShaped(payload)) =>
    /\ ~event_out.raised
    /\ event_out.event.source = "github"
    /\ event_out.event.status = Get(payload, "action")
    /\ event_out.event.url = Get(Get(payload, "workflow_run"), "html_url")
    /\ event_out.event.logs = JStr("")

\* C6 witness: a workflow_run payload that carries logs fields of its own
C6_Witness ==
  /\ pc = "done"
  /\ GithubShaped(payload)
  /\ Truthy(Get(payload, "logs"))
  /\ Truthy(Get(Get(payload, "workflow_run"), "logs"))
  /\ event_out.event.url = JStr("http://gh/runs/9")
  /\ event_out.event.logs = JStr("")

\* C7: on a payload without build and workflow_run key (a mapping without
\* them, or no mapping) the call does not raise and returns source =
\* unknown, status = null, url = null and logs = the serialization of the
\* whole payload: json.dumps of a mapping, str of any other value.
C7_UnknownFields ==
  (pc = "done" /\ UnknownShaped(payload)) =>
    /\ ~event_out.raised
    /\ event_out.event.source = "unknown"
    /\ event_out.event.status = JNull
    /\ event_out.event.url = JNull
    /\ event_out.event.logs =
         JStr(IF IsDict(payload) THEN json_dumps(payload) ELSE py_str(payload))

\* C7 witness: a mapping without either key, serialized as JSON text
C7_Witness ==
  /\ pc = "done"
  /\ payload = JDict(<< <<"logs", JStr("x")>>, <<"action", JStr("opened")>> >>)
  /\ event_out.event.source = "unknown"
  /\ event_out.event.logs = JStr("{\"logs\": \"x\", \"action\": \"opened\"}")

\* C8: every returned record has source in {jenkins, github, unknown}, a
\* logs field that is a string, and metadata equal to the input payload, so
\* that normalizing the metadata again gives the same record.
C8_RecordInvariant ==
  (pc = "done" /\ ~event_out.raised) =>
    /\ event_out.event.source \in {"jenkins", "github", "unknown"}
    /\ event_out.event.logs.t = "str"
    /\ event_out.event.metadata = payload
    /\ normalize_event(event_out.event.metadata) = event_out


(***************************************************************************)
(* log_processor.make_summary                                              *)
(***************************************************************************)
SUMMARY_CHARS == 2000

\* the f-string of line 24
Header(i) == "--- Error block " \o IntToStr(i) \o " (first 2000 chars) ---"

\* slip: enumerate(blocks) without the start index 1
RECURSIVE SummaryLoop_ZeroBased(_, _, _)
SummaryLoop_ZeroBased(blocks, i, out) ==
  IF i > Len(blocks) THEN out
  ELSE SummaryLoop_ZeroBased(blocks, i + 1,
         Append(Append(out, Header(i - 1)), FirstN(blocks[i], SUMMARY_CHARS)))

\* the loop of lines 23-26 from block i on; out is the list built so far
RECURSIVE SummaryLoop(_, _, _)
SummaryLoop(blocks, i, out) ==
  IF i > Len(blocks) THEN out
  ELSE SummaryLoop(blocks, i + 1,
         Append(Append(out, Header(i)), FirstN(blocks[i], SUMMARY_CHARS)))

make_summary(blocks) == join("\n\n", SummaryLoop(blocks, 1, <<>>))

(***************************************************************************)
(* Inputs of the summary builder: short blocks and blocks around the       *)
(* 2000 character limit, and one list long enough for a two-digit index.   *)
(***************************************************************************)
SummaryBlocks ==
  {"", "x", "ERROR: boom\n  at step 2", Rep("y", SUMMARY_CHARS),
   Rep("y", SUMMARY_CHARS) \o "z"}

InitSummary ==
  /\ pc = "start"
  /\ \/ \E n \in 0..MaxSummaryBlocks : blocks_in \in [1..n -> SummaryBlocks]
     \/ blocks_in = [i \in 1..11 |-> "x"]
  /\ summary_out = ""
  /\ log = ""
  /\ max_blocks = DEFAULT_MAX_BLOCKS
  /\ blocks_out = <<>>
  /\ payload = JNull
  /\ event_out = NoOutcome
  /\ SnippetIdle
  /\ PipeIdle

\* one call of make_summary(blocks_in)
SummaryCall ==
  /\ pc = "start"
  /\ summary_out' = make_summary(blocks_in)
  /\ pc' = "done"
  /\ UNCHANGED <<blocks_in, log, max_blocks, blocks_out, payload, event_out>>
  /\ UNCHANGED snippetVars
  /\ UNCHANGED pipeVars

NextSummary == SummaryCall

SpecSummary == InitSummary /\ [][NextSummary]_vars

(***************************************************************************)
(* Properties of make_summary.                                             *)
(***************************************************************************)
\* the header lines as the contract spells them
HeaderText(i) ==
  CASE i = 1 -> "--- Error block 1 (first 2000 chars) ---"
    [] i = 2 -> "--- Error block 2 (first 2000 chars) ---"
    [] i = 3 -> "--- Error block 3 (first 2000 chars) ---"
    [] i = 4 -> "--- Error block 4 (first 2000 chars) ---"
    [] i = 5 -> "--- Error block 5 (first 2000 chars) ---"
    [] i = 6 -> "--- Error block 6 (first 2000 chars) ---"
    [] i = 7 -> "--- Error block 7 (first 2000 chars) ---"
    [] i = 8 -> "--- Error block 8 (first 2000 chars) ---"
    [] i = 9 -> "--- Error block 9 (first 2000 chars) ---"
    [] i = 10 -> "--- Error block 10 (first 2000 chars) ---"
    [] i = 11 -> "--- Error block 11 (first 2000 chars) ---"

Min2(a, b) == IF a <= b THEN a ELSE b

\* header i, a blank line, the first 2000 characters of block i
SummaryPart(blocks, i) ==
  HeaderText(i) \o "\n\n" \o SubSeq(blocks[i], 1, Min2(Len(blocks[i]), 2000))

\* the parts of blocks 1..n separated by blank lines
RECURSIVE SummaryUpTo(_, _)
SummaryUpTo(blocks, n) ==
  IF n = 0 THEN ""
  ELSE IF n = 1 THEN SummaryPart(blocks, 1)
  ELSE SummaryUpTo(blocks, n - 1) \o "\n\n" \o SummaryPart(blocks, n)

\* C9: make_summary(blocks) is the join with blank lines of, for i = 1..n in
\* order, the header of block i and the first 2000 characters of block i;
\* [] gives "", ["x"] gives header, blank line, x.
C9_SummaryFormat ==
  pc = "done" =>
    /\ summary_out = SummaryUpTo(blocks_in, Len(blocks_in))
    /\ (blocks_in = <<>> => summary_out = "")
    /\ (blocks_in = <<"x">> =>
          summary_out = "--- Error block 1 (first 2000 chars) ---\n\nx")

\* C9 witness: two or more blocks, the last one longer than 2000 characters,
\* of which the summary ends with exactly the first 2000
C9_Witness ==
  /\ pc = "done"
  /\ Len(blocks_in) >= 2
  /\ Len(blocks_in[Len(blocks_in)]) > 2000
  /\ Len(summary_out) > 2000
  /\ SubSeq(summary_out, Len(summary_out) - 1999, Len(summary_out))
       = SubSeq(blocks_in[Len(blocks_in)], 1, 2000)
  /\ SubSeq(summary_out, Len(summary_out) - 2001, Len(summary_out) - 2000) = "\n\n"


(***************************************************************************)
(* Order of the matched blocks.                                            *)
(***************************************************************************)
\* the spans of the matches of pattern class c in s, from index pos on:
\* the leftmost match, then the leftmost one after what it consumed
RECURSIVE ClassSpans(_, _, _)
ClassSpans(s, c, pos) ==
  LET pat == ERROR_PATTERNS[c]
      starts == {i \in pos..(Len(s) - Len(pat.mark) - pat.minBody + 1) :
                   SubSeq(s, i, i + Len(pat.mark) - 1) = pat.mark}
  IN IF starts = {} THEN <<>>
     ELSE LET i == CHOOSE x \in starts : \A y \in starts : x <= y
              first == i + Len(pat.mark) - 1 + pat.minBody
              stops == {e \in first..Len(s) :
                          e = Len(s) \/ (e + 2 <= Len(s) /\ SubSeq(s, e + 1, e + 2) = "\n\n")}
              e == CHOOSE x \in stops : \A y \in stops : x <= y
          IN <<[cls |-> c, from |-> i, to |-> e]>>
               \o ClassSpans(s, c, IF e = Len(s) THEN Len(s) + 1 ELSE e + 3)

\* the spans of all classes, highest priority first
PrioritySpans(s) == ClassSpans(s, 1, 1) \o ClassSpans(s, 2, 1) \o ClassSpans(s, 3, 1)

\* the call collected enough matches to return them (line 17)
ReturnsMatches(s, mb) ==
  Len(PrioritySpans(s)) >= 1 /\ Len(PrioritySpans(s)) >= mb

\* C11: returned matched blocks are in pattern-priority order: traceback
\* blocks, then ERROR: blocks, then Exception: blocks, wherever the markers
\* stand in the log; within one class they are in document order and their
\* spans in the log do not overlap.
C11_PriorityOrder ==
  (pc = "done" /\ ReturnsMatches(log, max_blocks)) =>
    LET sp == PrioritySpans(log)
    IN /\ Len(blocks_out) >= 1
       /\ Len(blocks_out) <= Len(sp)
       /\ \A k \in 1..Len(blocks_out) :
            /\ blocks_out[k] = strip(SubSeq(log, sp[k].from, sp[k].to))
            /\ StartsAt(blocks_out[k], 1, ERROR_PATTERNS[sp[k].cls].mark)
       /\ \A j, k \in 1..Len(blocks_out) :
            j < k => /\ sp[j].cls <= sp[k].cls
                     /\ (sp[j].cls = sp[k].cls => sp[j].to < sp[k].from)

\* C11 witness: a traceback block is returned before an ERROR: block whose
\* marker stands earlier in the log
C11_Witness ==
  /\ pc = "done"
  /\ ReturnsMatches(log, max_blocks)
  /\ Len(blocks_out) = 2
  /\ StartsAt(blocks_out[1], 1, TRACEBACK_MARK)
  /\ StartsAt(blocks_out[2], 1, ERROR_MARK)
  /\ PrioritySpans(log)[2].from < PrioritySpans(log)[1].from


(***************************************************************************)
(* process_event.extract_error_blocks: the most-recent-marker extractor.   *)
(***************************************************************************)
TAIL_CHARS == 16000
SNIPPET_CHARS == 2000

MARKERS == <<"Traceback", "Exception", "ERROR", "error:", "fatal:">>

\* s[-n:]
LastChars(s, n) == IF Len(s) <= n THEN s ELSE SubSeq(s, Len(s) - n + 1, Len(s))

\* s.rfind(m) as an index from 1; 0 when m does not occur
rfind(s, m) ==
  LET C == {i \in 1..(Len(s) - Len(m) + 1) : SubSeq(s, i, i + Len(m) - 1) = m}
  IN IF C = {} THEN 0 ELSE CHOOSE i \in C : \A j \in C : j <= i

\* slip: find instead of rfind, the first occurrence of the marker
RECURSIVE MarkerLoop_First(_, _)
MarkerLoop_First(tail, k) ==
  IF k > Len(MARKERS) THEN LastChars(tail, SNIPPET_CHARS)
  ELSE LET C == {i \in 1..(Len(tail) - Len(MARKERS[k]) + 1) :
                   SubSeq(tail, i, i + Len(MARKERS[k]) - 1) = MARKERS[k]}
       IN IF C = {} THEN MarkerLoop_First(tail, k + 1)
          ELSE SubSeq(tail, CHOOSE i \in C : \A j \in C : i <= j, Len(tail))

\* the loop of lines 79-85 from marker k on, with the fallback after it
RECURSIVE MarkerLoop(_, _)
MarkerLoop(tail, k) ==
  IF k > Len(MARKERS) THEN LastChars(tail, SNIPPET_CHARS)
  ELSE LET idx == rfind(tail, MARKERS[k])
       IN IF idx # 0 THEN SubSeq(tail, idx, Len(tail)) ELSE MarkerLoop(tail, k + 1)

pe_extract_error_blocks(text) ==
  IF text = "" THEN "" ELSE MarkerLoop(LastChars(text, TAIL_CHARS), 1)

(***************************************************************************)
(* Inputs of the most-recent-marker extractor: texts of markers and plain  *)
(* characters, alone or with a run of padding before or after them.        *)
(***************************************************************************)
MarkPieces == {"Traceback", "Exception", "ERROR", "error:", "fatal:", "ok\n"}

Texts(n) == UNION {{Flatten(f) : f \in [1..m -> MarkPieces]} : m \in 0..n}

Pad(n) == Rep(".", n)

InitSnippet ==
  /\ pc = "start"
  /\ \/ log_text \in Texts(MaxMarkPieces)
     \/ \E b \in Texts(MaxPadBodyPieces) :
          \/ log_text = b \o Pad(TAIL_CHARS)
          \/ log_text = b \o Pad(TAIL_CHARS - 3)
          \/ log_text = b \o Pad(SNIPPET_CHARS + 1)
          \/ log_text = Pad(TAIL_CHARS) \o b
  /\ snippet_out = ""
  /\ UnitIdle
  /\ PipeIdle

\* one call of process_event.extract_error_blocks(log_text)
SnippetCall ==
  /\ pc = "start"
  /\ snippet_out' = pe_extract_error_blocks(log_text)
  /\ pc' = "done"
  /\ UNCHANGED log_text
  /\ UNCHANGED unitVars
  /\ UNCHANGED pipeVars

NextSnippet == SnippetCall

SpecSnippet == InitSnippet /\ [][NextSnippet]_vars

(***************************************************************************)
(* Properties of the most-recent-marker extractor.                         *)
(***************************************************************************)
\* the final 16000 characters of text
TailOf(text) ==
  IF Len(text) <= 16000 THEN text ELSE SubSeq(text, Len(text) - 15999, Len(text))

\* the indices of t at which marker k stands
MarkerAt(t, k) ==
  {i \in 1..(Len(t) - Len(MARKERS[k]) + 1) : SubSeq(t, i, i + Len(MARKERS[k]) - 1) = MARKERS[k]}

\* for each marker, in the order of MARKERS, the indices of t at which it stands
MarkerPlaces(t) == [k \in 1..Len(MARKERS) |-> MarkerAt(t, k)]

MaxOf(S) == CHOOSE i \in S : \A j \in S : j <= i

\* the final 2000 characters of t
FinalChars(t) == IF Len(t) <= 2000 THEN t ELSE SubSeq(t, Len(t) - 1999, Len(t))

\* C12 as stated: when a marker occurs in the final 16000 characters, the
\* result is the suffix that starts at the rightmost occurrence of any
\* marker; when none occurs, the result is the final 2000 characters.
C12_RightmostMarker ==
  pc = "done" =>
    LET t == TailOf(log_text)
        at == MarkerPlaces(t)
        any == UNION {at[k] : k \in 1..Len(MARKERS)}
    IN IF any # {}
       THEN snippet_out = SubSeq(t, MaxOf(any), Len(t))
       ELSE snippet_out = FinalChars(t)

\* C12 amended: the result is the suffix that starts at the last occurrence
\* of the first marker, in the order Traceback, Exception, ERROR, error:,
\* fatal:, that occurs in the final 16000 characters; when none occurs, the
\* result is the final 2000 characters.
C12_FirstMarkerLastOccurrence ==
  pc = "done" =>
    LET t == TailOf(log_text)
        at == MarkerPlaces(t)
    IN IF \E k \in 1..Len(MARKERS) : at[k] # {}
       THEN LET k == CHOOSE n \in 1..Len(MARKERS) :
                       at[n] # {} /\ \A m \in 1..(n - 1) : at[m] = {}
            IN snippet_out = SubSeq(t, MaxOf(at[k]), Len(t))
       ELSE snippet_out = FinalChars(t)

\* C12 witness: a marker of higher priority occurs twice and a marker of
\* lower priority occurs after it; the result starts at the second
\* occurrence of the former
C12_Witness ==
  /\ pc = "done"
  /\ Len(log_text) <= 100
  /\ LET at == MarkerPlaces(log_text)
     IN \E k \in 1..Len(MARKERS) :
          /\ Cardinality(at[k]) = 2
          /\ \A m \in 1..(k - 1) : at[m] = {}
          /\ \E n \in (k + 1)..Len(MARKERS) : at[n] # {} /\ MaxOf(at[n]) > MaxOf(at[k])
          /\ snippet_out = SubSeq(log_text, MaxOf(at[k]), Len(log_text))

(***************************************************************************)
(* process_event.process_event_sync and its collaborators.  A call of a    *)
(* collaborator is recorded with the build url and the argument it was     *)
(* given and with its outcome.                                             *)
(***************************************************************************)
Call(fn, url, arg, out) == [fn |-> fn, url |-> url, arg |-> arg, out |-> out]

ErrorDict(msg) == JDict(<< <<"error", JStr(msg)>> >>)

\* the set of outcomes of _post_back_to_jenkins(build_url, a)
post_back_to_jenkins(build_url, a) ==
  IF ~(env.JENKINS_USER # Unset /\ env.JENKINS_API_TOKEN # Unset /\ Truthy(build_url))
  THEN {Return(JBool(FALSE))}
  ELSE IF build_url.t # "str" \/ ~IsDict(a) THEN {Raise("AttributeError")}
  ELSE {Return(JBool(TRUE)), Return(JBool(FALSE))}

\* the set of outcomes of _notify_slack(a, build_url)
notify_slack(a, build_url) ==
  IF env.SLACK_WEBHOOK = Unset THEN {Return(JBool(FALSE))}
  ELSE IF ~IsDict(a) THEN {Raise("AttributeError")}
  ELSE {Return(JBool(TRUE)), Return(JBool(FALSE))}

PR_URL == "https://github.com/owner/repo/pull/7"

\* the set of outcomes of _create_pull_request_with_patch(repo, base, patch_content)
create_pull_request_with_patch(repo, patch_content) ==
  IF ~(env.GITHUB_TOKEN # Unset /\ repo # Unset)
  THEN {Return(ErrorDict("Missing GITHUB_TOKEN or repo"))}
  ELSE {Return(ErrorDict("Failed to fetch base ref: 404")), Raise("ConnectionError")} \cup
       (IF patch_content.t # "str" THEN {Raise("AttributeError")}
        ELSE {Return(ErrorDict("Failed to create PR: 422")),
              Return(JDict(<< <<"pr_url", JNull>> >>)),
              Return(JDict(<< <<"pr_url", JStr(PR_URL)>> >>))})

\* lines 254-257: an analysis that is only raw text keeps its raw field alone
Rewrap(a) ==
  IF IsDict(a) /\ Has(a, "raw") /\
     ~(Has(a, "diagnosis") \/ Has(a, "fixes") \/ Has(a, "pipeline_patch"))
  THEN JDict(<< <<"raw", Get(a, "raw")>> >>)
  ELSE a

\* lines 281-283
PipelinePatch(a) ==
  IF IsDict(a) THEN Or(Get(a, "pipeline_patch"), Get(a, "pipeline")) ELSE JNull

\* what analyze_with_openai gives back: an exception, an error wrapper, raw
\* text, or the JSON value found in the reply of the model
AnalyzerOutcomes ==
  {Raise("connection reset"),
   Return(ErrorDict("GROQ_API_KEY not set in environment (.env)")),
   Return(JDict(<< <<"error", JStr("")>>, <<"diagnosis", JStr("flaky test")>> >>)),
   Return(JDict(<< <<"raw", JStr("no idea")>> >>)),
   Return(JDict(<< <<"raw", JStr("no idea")>>, <<"usage", JInt(3)>> >>)),
   Return(JDict(<< <<"diagnosis", JStr("missing dependency")>>,
                   <<"confidence", JStr("high")>>,
                   <<"fixes", JList(<<JStr("pip install x")>>)>> >>)),
   Return(JDict(<< <<"diagnosis", JStr("bad stage")>>,
                   <<"pipeline_patch", JStr("stages: [build]")>> >>)),
   Return(JDict(<< <<"diagnosis", JStr("bad stage")>>,
                   <<"pipeline_patch", JStr("")>> >>)),
   Return(JDict(<< <<"diagnosis", JStr("bad stage")>>,
                   <<"pipeline", JStr("stages: [test]")>> >>)),
   Return(JDict(<< <<"diagnosis", JStr("bad stage")>>,
                   <<"pipeline_patch", JDict(<< <<"jobs", JInt(1)>> >>)>> >>)),
   Return(JList(<<JInt(1)>>))}

\* lines 227-238: normalize, stop without logs, cut the snippet
ProcessStart ==
  /\ ppc = "called"
  /\ LET n == normalize_event(event)
         logs == n.event.logs
     IN IF n.raised
        THEN /\ result' = Raise(n.exc)
             /\ ppc' = "raised"
             /\ UNCHANGED <<ev, snippet>>
        ELSE /\ ev' = n.event
             /\ IF logs.t \in {"null", "bool", "int"}
                THEN /\ result' = Raise("TypeError")
                     /\ ppc' = "raised"
                     /\ UNCHANGED snippet
                ELSE IF ~Truthy(logs)
                THEN /\ result' = Return(ErrorDict("no logs"))
                     /\ ppc' = "returned"
                     /\ UNCHANGED snippet
                ELSE IF logs.t # "str"
                THEN /\ result' = Raise("AttributeError")
                     /\ ppc' = "raised"
                     /\ UNCHANGED snippet
                ELSE /\ snippet' = pe_extract_error_blocks(logs.v)
                     /\ ppc' = "analyze"
                     /\ UNCHANGED result
  /\ UNCHANGED <<event, analysis, calls>>
  /\ UNCHANGED serverVars
  /\ UNCHANGED fixedVars

\* slip: an error wrapper of the analyzer is treated as an analysis
CallAnalyzer_NoBubble ==
  /\ ppc = "analyze"
  /\ \E out \in AnalyzerOutcomes :
       /\ calls' = Append(calls, Call("analyze_with_openai", JNull, JStr(snippet), out))
       /\ IF out.raised
          THEN /\ result' = Return(ErrorDict(out.exc))
               /\ ppc' = "returned"
               /\ UNCHANGED analysis
          ELSE /\ analysis' = Rewrap(out.event)
               /\ ppc' = "jenkins"
               /\ UNCHANGED result
  /\ UNCHANGED <<event, ev, snippet>>
  /\ UNCHANGED serverVars
  /\ UNCHANGED fixedVars

\* lines 241-264: call the analyzer, stop on its failure, rewrap raw text
CallAnalyzer ==
  /\ ppc = "analyze"
  /\ \E out \in AnalyzerOutcomes :
       /\ calls' = Append(calls, Call("analyze_with_openai", JNull, JStr(snippet), out))
       /\ IF out.raised
          THEN /\ result' = Return(ErrorDict(out.exc))
               /\ ppc' = "returned"
               /\ UNCHANGED analysis
          ELSE IF IsDict(out.event) /\ Truthy(Get(out.event, "error"))
          THEN /\ analysis' = out.event
               /\ result' = Return(out.event)
               /\ ppc' = "returned"
          ELSE /\ analysis' = Rewrap(out.event)
               /\ ppc' = "jenkins"
               /\ UNCHANGED result
  /\ UNCHANGED <<event, ev, snippet>>
  /\ UNCHANGED serverVars
  /\ UNCHANGED fixedVars

\* slip: an exception of the post-back is not caught
PostBackToJenkins_Fatal ==
  /\ ppc = "jenkins"
  /\ \E out \in post_back_to_jenkins(ev.url, analysis) :
       /\ calls' = Append(calls, Call("_post_back_to_jenkins", ev.url, analysis, out))
       /\ IF out.raised
          THEN /\ result' = Raise(out.exc)
               /\ ppc' = "raised"
          ELSE /\ ppc' = "slack"
               /\ UNCHANGED result
  /\ UNCHANGED <<event, ev, snippet, analysis>>
  /\ UNCHANGED serverVars
  /\ UNCHANGED fixedVars

\* lines 267-271: the post-back, whatever its outcome
PostBackToJenkins ==
  /\ ppc = "jenkins"
  /\ \E out \in post_back_to_jenkins(ev.url, analysis) :
       calls' = Append(calls, Call("_post_back_to_jenkins", ev.url, analysis, out))
  /\ ppc' = "slack"
  /\ UNCHANGED <<event, ev, snippet, analysis, result>>
  /\ UNCHANGED serverVars
  /\ UNCHANGED fixedVars

\* lines 274-278: the notification, whatever its outcome
NotifySlack ==
  /\ ppc = "slack"
  /\ \E out \in notify_slack(analysis, ev.url) :
       calls' = Append(calls, Call("_notify_slack", ev.url, analysis, out))
  /\ ppc' = "github"
  /\ UNCHANGED <<event, ev, snippet, analysis, result>>
  /\ UNCHANGED serverVars
  /\ UNCHANGED fixedVars

\* line 294: the analysis given to the second notification
PullRequestNotice(a) ==
  JDict(<< <<"diagnosis", Get(a, "diagnosis")>>, <<"confidence", Get(a, "confidence")>> >>)

\* lines 281-300: the pull request when there is a patch and GitHub is
\* configured, the second notification when it was created, and the return
CreatePullRequest ==
  /\ ppc = "github"
  /\ LET pipeline_patch == PipelinePatch(analysis)
     IN IF Truthy(pipeline_patch) /\ env.GITHUB_TOKEN # Unset /\ env.GITHUB_REPO # Unset
        THEN \E out \in create_pull_request_with_patch(env.GITHUB_REPO, pipeline_patch) :
               LET made == Append(calls, Call("_create_pull_request_with_patch", JNull,
                                              pipeline_patch, out))
               IN IF ~out.raised /\ Truthy(Get(out.event, "pr_url")) /\
                     env.SLACK_WEBHOOK # Unset
                  THEN \E sent \in notify_slack(PullRequestNotice(analysis), ev.url) :
                         calls' = Append(made, Call("_notify_slack", ev.url,
                                                    PullRequestNotice(analysis), sent))
                  ELSE calls' = made
        ELSE calls' = calls
  /\ result' = Return(analysis)
  /\ ppc' = "returned"
  /\ UNCHANGED <<event, ev, snippet, analysis>>
  /\ UNCHANGED serverVars
  /\ UNCHANGED fixedVars

(***************************************************************************)
(* Direct calls of process_event_sync, as the test helper at the end of    *)
(* process_event.py makes them.                                            *)
(***************************************************************************)
\* lines 320-327
SAMPLE ==
  JDict(<< <<"build", JDict(<< <<"status", JStr("FAILURE")>>,
                              <<"full_url", JStr("http://localhost/job/test/1/")>>,
                              <<"url", JStr("http://localhost/job/test/1/")>>,
                              <<"logs", JStr("Traceback (most recent call last):\\n  File 'a.py', line 1\\nException: boom\\n")>> >>)>> >>)

JenkinsBuild(items) == JDict(<< <<"build", JDict(items)>> >>)

ProcessEvents ==
  {SAMPLE,
   JenkinsBuild(<< <<"url", JStr("http://ci/job/t/2/")>>, <<"logs", JStr("ok\nERROR: boom\n")>> >>),
   JenkinsBuild(<< <<"url", JInt(7)>>, <<"logs", JStr("fatal: no remote")>> >>),
   JenkinsBuild(<< <<"logs", JStr("plain output")>> >>),
   JenkinsBuild(<< <<"status", JStr("FAILURE")>>, <<"full_url", JStr("http://ci/job/t/3/")>> >>),
   JenkinsBuild(<< <<"url", JStr("http://ci/job/t/4/")>>, <<"logs", JStr("")>> >>),
   JenkinsBuild(<< <<"url", JStr("http://ci/job/t/5/")>>, <<"logs", JInt(7)>> >>),
   JenkinsBuild(<< <<"url", JStr("http://ci/job/t/6/")>>, <<"logs", JList(<<JStr("x")>>)>> >>),
   JDict(<< <<"build", JNull>> >>),
   JDict(<< <<"action", JStr("completed")>>,
            <<"workflow_run", JDict(<< <<"html_url", JStr("http://gh/runs/9")>> >>)>> >>),
   JDict(<< <<"ref", JStr("refs/heads/main")>> >>),
   JStr("Exception in thread main"),
   JStr("")}

ProcessEnvs ==
  {[NoEnv EXCEPT !.JENKINS_USER = ju, !.JENKINS_API_TOKEN = jt, !.SLACK_WEBHOOK = sw,
                 !.GITHUB_TOKEN = gt, !.GITHUB_REPO = gr] :
     ju \in {Unset, "ci"}, jt \in {Unset, "11aa"}, sw \in {Unset, "https://hooks.slack/T0"},
     gt \in {Unset, "ghp_1"}, gr \in {Unset, "owner/repo"}}

InitProcess ==
  /\ pc = "start"
  /\ UnitIdle
  /\ SnippetIdle
  /\ ServerIdle
  /\ env \in ProcessEnvs
  /\ event \in ProcessEvents
  /\ ppc = "called"
  /\ ev = NoEvent
  /\ snippet = ""
  /\ analysis = JNull
  /\ calls = <<>>
  /\ result = NoOutcome

NextProcess ==
  \/ ProcessStart
  \/ CallAnalyzer
  \/ PostBackToJenkins
  \/ NotifySlack
  \/ CreatePullRequest

SpecProcess == InitProcess /\ [][NextProcess]_vars

(***************************************************************************)
(* server.py: the signature check, the server's own normalize_event and    *)
(* the handler of POST /webhook.                                           *)
(***************************************************************************)
UPPER == "ABCDEFGHIJKLMNOPQRSTUVWXYZ"
LOWER == "abcdefghijklmnopqrstuvwxyz"
HEX == "0123456789abcdefABCDEF"

LowerChar(c) ==
  IF HasChar(UPPER, c)
  THEN Char(LOWER, CHOOSE i \in 1..Len(UPPER) : Char(UPPER, i) = c)
  ELSE c

\* s.lower()
RECURSIVE lower(_)
lower(s) == IF s = "" THEN "" ELSE LowerChar(Char(s, 1)) \o lower(SubSeq(s, 2, Len(s)))

\* s.startswith(prefix)
startswith(s, prefix) == StartsAt(s, 1, prefix)

\* lines 33-44; hdr is None or a string
normalize_header_value(hdr) ==
  IF ~Truthy(hdr) THEN JNull
  ELSE LET h == strip(hdr.v)
       IN IF startswith(lower(h), "sha256=") \/ startswith(lower(h), "sha256:") THEN JStr(h)
          ELSE IF (\A i \in 1..Len(h) : HasChar(HEX, Char(h, i))) /\ Len(h) >= 64
          THEN JStr("sha256=" \o h)
          ELSE JStr(h)

\* HMAC-SHA256 digests of the request bodies under the key "s3cret", as
\* hmac.new(key, msg, sha256).hexdigest() gives them
HMAC_SHA256 ==
  {<<"s3cret", "{\"build\": {\"status\": \"FAILURE\", \"full_url\": \"http://localhost/job/test/1/\", \"url\": \"http://localhost/job/test/1/\", \"logs\": \"Traceback (most recent call last):\\\\n  File 'a.py', line 1\\\\nException: boom\\\\n\"}}",
     "6cc686e182c0fc2dda7a2f520730896a95cea2afe22b4d077de33af851a383c0">>,
   <<"s3cret", "{\"build\": {\"url\": \"http://ci/job/t/2/\", \"logs\": \"ok\\nERROR: boom\\n\"}}",
     "e39c812085ef41d6028152bea5b7c5700be3a9393b164892b4e4746ee63dfd13">>,
   <<"s3cret", "{\"build\": {\"status\": \"FAILURE\", \"full_url\": \"http://ci/job/t/3/\"}}",
     "ff8452e647971b1f537f4da18834616df402e536c911d1f50ae077ed367ab494">>,
   <<"s3cret", "{\"action\": \"completed\", \"workflow_run\": {\"html_url\": \"http://gh/runs/9\"}}",
     "1c2bd78d1b0af9b92c0d5e292f4a8917e8015dd21b373cf1dea58d7d0417b0e6">>,
   <<"s3cret", "{\"ref\": \"refs/heads/main\"}",
     "0b73f95767616f2bc5f64e406f60acc56a2b962c202d5c7b12807ff54976d5d0">>,
   <<"s3cret", "5",
     "a02400e5cecee1bdb876d47b30edb849a6431212dfcb46fbfc941144f0fe4e50">>,
   <<"s3cret", "{\"build\": null}",
     "67ecdd7bb3a81915a98af4c16ce6e7310cdaca0fbee0bc9175b4ef6e69b2f04d">>,
   <<"s3cret", "",
     "91dfac70c5348b04e1babb8b421ac92cec08b565b49ca16130dccb72503647b7">>,
   <<"s3cret", "{\"build\": ",
     "7a72f2cbb0870056753271bb3b4b161e40ebc3d3410673c77edf953965c24d1c">>}

\* lines 68-69
hexdigest(key, msg) == (CHOOSE d \in HMAC_SHA256 : d[1] = key /\ d[2] = msg)[3]

\* slip: a request without the header passes
verify_signature_MissingOk(body, header_signature) ==
  IF env.SKIP_SIGNATURE THEN TRUE
  ELSE IF env.WEBHOOK_SECRET = Unset THEN FALSE
  ELSE LET h == normalize_header_value(header_signature)
       IN IF ~Truthy(h) THEN TRUE
          ELSE LET expected_hex == hexdigest(env.WEBHOOK_SECRET, body)
               IN h.v = "sha256=" \o expected_hex \/ h.v = "sha256:" \o expected_hex

\* lines 47-85
verify_signature(body, header_signature) ==
  IF env.SKIP_SIGNATURE THEN TRUE
  ELSE IF env.WEBHOOK_SECRET = Unset THEN FALSE
  ELSE LET h == normalize_header_value(header_signature)
       IN IF ~Truthy(h) THEN FALSE
          ELSE LET expected_hex == hexdigest(env.WEBHOOK_SECRET, body)
               IN h.v = "sha256=" \o expected_hex \/ h.v = "sha256:" \o expected_hex

\* k in x, for the values that have the operator; "TypeError" for the others
In(k, x) ==
  CASE x.t = "dict" -> Has(x, k)
    [] x.t = "list" -> \E i \in 1..Len(x.v) : x.v[i] = JStr(k)
    [] x.t = "str" -> Contains(x.v, k)
    [] OTHER -> "TypeError"

\* server.py lines 118-141; the event is a mapping, and in the fallback it
\* has no url
server_normalize_event(p) ==
  IF p.t \notin {"dict", "list", "str"} THEN Raise("TypeError")
  ELSE IF In("build", p)
  THEN IF ~IsDict(p) \/ ~IsDict(GetDefault(p, "build", JDict(<<>>)))
       THEN Raise("AttributeError")
       ELSE LET build == GetDefault(p, "build", JDict(<<>>))
            IN Return(JDict(<< <<"source", JStr("jenkins")>>,
                               <<"status", Get(build, "status")>>,
                               <<"url", Or(Get(build, "full_url"), Get(build, "url"))>>,
                               <<"logs", Or(Get(build, "logs"), JStr(""))>>,
                               <<"metadata", p>> >>))
  ELSE IF In("workflow_run", p)
  THEN IF ~IsDict(p) \/ ~IsDict(GetDefault(p, "workflow_run", JDict(<<>>)))
       THEN Raise("AttributeError")
       ELSE Return(JDict(<< <<"source", JStr("github")>>,
                            <<"status", Get(p, "action")>>,
                            <<"url", Get(GetDefault(p, "workflow_run", JDict(<<>>)), "html_url")>>,
                            <<"logs", JStr("")>>,
                            <<"metadata", p>> >>))
  ELSE Return(JDict(<< <<"source", JStr("unknown")>>,
                       <<"status", JNull>>,
                       <<"logs", JStr(py_str(p))>>,
                       <<"metadata", p>> >>))

(***************************************************************************)
(* Requests: a JSON body, or one that does not parse, with a signature     *)
(* header made for it by a sender who knows the secret, or by one who does *)
(* not.                                                                    *)
(***************************************************************************)
SECRET == "s3cret"

WebhookPayloads ==
  {SAMPLE,
   JenkinsBuild(<< <<"url", JStr("http://ci/job/t/2/")>>, <<"logs", JStr("ok\nERROR: boom\n")>> >>),
   JenkinsBuild(<< <<"status", JStr("FAILURE")>>, <<"full_url", JStr("http://ci/job/t/3/")>> >>),
   JDict(<< <<"action", JStr("completed")>>,
            <<"workflow_run", JDict(<< <<"html_url", JStr("http://gh/runs/9")>> >>)>> >>),
   JDict(<< <<"ref", JStr("refs/heads/main")>> >>),
   JInt(5),
   JDict(<< <<"build", JNull>> >>)}

BadBodies == {"", "{\"build\": "}

RequestBodies == {json_dumps(p) : p \in WebhookPayloads} \cup BadBodies

\* json.loads(body), line 105
json_loads(body) ==
  IF \E p \in WebhookPayloads : json_dumps(p) = body
  THEN Return(CHOOSE p \in WebhookPayloads : json_dumps(p) = body)
  ELSE Raise("JSONDecodeError")

HeadersFor(body) ==
  LET d == hexdigest(SECRET, body)
  IN {JNull, JStr(""),
      JStr("sha256=" \o d), JStr("sha256:" \o d), JStr("  sha256=" \o d \o " "), JStr(d),
      JStr("SHA256=" \o d),
      JStr("sha256=" \o Rep("0", 64)), JStr(Rep("0", 64))}

HTTPException(status_code, detail) ==
  [status |-> status_code, body |-> JDict(<< <<"detail", JStr(detail)>> >>)]

Received == [status |-> 200, body |-> JDict(<< <<"received", JBool(TRUE)>> >>)]

\* lines 91-101: read the body, check the signature
VerifySignature ==
  /\ hpc = "receive"
  /\ \E b \in RequestBodies :
       \E h \in HeadersFor(b) :
         /\ request' = [header |-> h, body |-> b]
         /\ IF verify_signature(b, h)
            THEN /\ hpc' = "parse"
                 /\ UNCHANGED response
            ELSE /\ response' = HTTPException(401, "invalid signature")
                 /\ hpc' = "done"
  /\ UNCHANGED <<parsed, task>>
  /\ UNCHANGED processVars
  /\ UNCHANGED fixedVars

\* lines 104-108: parse the body
ParseJson ==
  /\ hpc = "parse"
  /\ LET r == json_loads(request.body)
     IN IF r.raised
        THEN /\ response' = HTTPException(400, "invalid json")
             /\ hpc' = "done"
             /\ UNCHANGED parsed
        ELSE /\ parsed' = r.event
             /\ hpc' = "dispatch"
             /\ UNCHANGED response
  /\ UNCHANGED <<request, task>>
  /\ UNCHANGED processVars
  /\ UNCHANGED fixedVars

\* lines 111-115: normalize, make the task, answer; an exception of
\* normalize_event is answered 500 by the framework
Dispatch ==
  /\ hpc = "dispatch"
  /\ LET n == server_normalize_event(parsed)
     IN IF n.raised
        THEN /\ response' = HTTPException(500, "Internal Server Error")
             /\ UNCHANGED <<event, task>>
        ELSE /\ event' = n.event
             /\ task' = "scheduled"
             /\ response' = Received
  /\ hpc' = "done"
  /\ UNCHANGED <<request, parsed>>
  /\ UNCHANGED <<ppc, ev, snippet, analysis, calls, result>>
  /\ UNCHANGED fixedVars

\* process_event.py lines 307-312: the task runs process_event_sync(event)
\* in the executor
TaskStart ==
  /\ task = "scheduled"
  /\ task' = "running"
  /\ ppc' = "called"
  /\ UNCHANGED <<request, hpc, response, parsed>>
  /\ UNCHANGED <<event, ev, snippet, analysis, calls, result>>
  /\ UNCHANGED fixedVars

\* the task ends with the value or the exception of process_event_sync
TaskEnd ==
  /\ task = "running"
  /\ ppc \in {"returned", "raised"}
  /\ task' = "finished"
  /\ UNCHANGED <<request, hpc, response, parsed>>
  /\ UNCHANGED processVars
  /\ UNCHANGED fixedVars

\* the environments of a server: the credentials of Jenkins are set together
\* or not at all, and so are the token and the repository of GitHub
WebhookEnvs ==
  {[pe EXCEPT !.SKIP_SIGNATURE = skip, !.WEBHOOK_SECRET = ws] :
     pe \in {x \in ProcessEnvs : /\ (x.JENKINS_USER = Unset) = (x.JENKINS_API_TOKEN = Unset)
                                 /\ (x.GITHUB_TOKEN = Unset) = (x.GITHUB_REPO = Unset)},
     skip \in BOOLEAN, ws \in {Unset, SECRET}}

InitWebhook ==
  /\ pc = "start"
  /\ UnitIdle
  /\ SnippetIdle
  /\ env \in WebhookEnvs
  /\ request = NoRequest
  /\ hpc = "receive"
  /\ response = NoResponse
  /\ parsed = JNull
  /\ task = "none"
  /\ ProcessIdle

NextWebhook ==
  \/ VerifySignature
  \/ ParseJson
  \/ Dispatch
  \/ TaskStart
  \/ TaskEnd
  \/ ProcessStart
  \/ CallAnalyzer
  \/ PostBackToJenkins
  \/ NotifySlack
  \/ CreatePullRequest

SpecWebhook == InitWebhook /\ [][NextWebhook]_vars

(***************************************************************************)
(* Properties of process_event_sync.                                       *)
(***************************************************************************)
ANALYZER == "analyze_with_openai"
JENKINS == "_post_back_to_jenkins"
SLACK == "_notify_slack"
GITHUB == "_create_pull_request_with_patch"

\* no call of a side effect has been made
NoSideEffect == \A i \in 1..Len(calls) : calls[i].fn \notin {JENKINS, SLACK, GITHUB}

\* the call of the analyzer was made and gave back the outcome out
AnalyzerGave(out) == Len(calls) >= 1 /\ calls[1].fn = ANALYZER /\ calls[1].out = out

\* the analyzer returned something that is no error wrapper
AnalyzedWithoutError ==
  /\ Len(calls) >= 1
  /\ calls[1].fn = ANALYZER
  /\ ~calls[1].out.raised
  /\ ~(calls[1].out.event.t = "dict" /\ Truthy(Get(calls[1].out.event, "error")))

AllConfigured ==
  /\ env.JENKINS_USER # "" /\ env.JENKINS_API_TOKEN # ""
  /\ env.SLACK_WEBHOOK # ""
  /\ env.GITHUB_TOKEN # "" /\ env.GITHUB_REPO # ""

\* C15: process_event_sync stops early in three cases.  When the normalized
\* logs are empty it returns {'error': 'no logs'} and the analyzer is not
\* called; when the analyzer raises it returns {'error': <message>}; when
\* the analyzer returns a mapping with a truthy 'error' it returns that
\* mapping unchanged.  In all three no Jenkins post-back, no Slack
\* notification and no pull request is attempted.
C15_EarlyStops ==
  /\ (ppc # "called" /\ ev.logs = JStr("")) =>
       /\ ppc = "returned"
       /\ result = Return(JDict(<< <<"error", JStr("no logs")>> >>))
       /\ calls = <<>>
  /\ \A out \in AnalyzerOutcomes :
       (AnalyzerGave(out) /\ out.raised) =>
         /\ ppc = "returned"
         /\ result = Return(JDict(<< <<"error", JStr(out.exc)>> >>))
         /\ Len(calls) = 1
  /\ \A out \in AnalyzerOutcomes :
       (AnalyzerGave(out) /\ ~out.raised /\ out.event.t = "dict" /\
        Truthy(Get(out.event, "error"))) =>
         /\ ppc = "returned"
         /\ result = Return(out.event)
         /\ Len(calls) = 1

\* C15 witness: with every collaborator configured and a build url at hand,
\* the analyzer gave back an error wrapper and the call has returned
C15_Witness ==
  /\ ppc = "returned"
  /\ AllConfigured
  /\ ev.url.t = "str" /\ ev.url.v # ""
  /\ \E out \in AnalyzerOutcomes :
       /\ AnalyzerGave(out)
       /\ ~out.raised
       /\ out.event.t = "dict"
       /\ Truthy(Get(out.event, "error"))
  /\ NoSideEffect

\* the patch that a pull request is made of
PatchOf(a) ==
  IF a.t # "dict" THEN JNull
  ELSE IF Truthy(Get(a, "pipeline_patch")) THEN Get(a, "pipeline_patch")
  ELSE Get(a, "pipeline")

\* the functions called so far, in order
CalledFns == [i \in 1..Len(calls) |-> calls[i].fn]

IsPrefix(p, q) == Len(p) <= Len(q) /\ \A i \in 1..Len(p) : p[i] = q[i]

\* C16: after an analysis without error the side effects are attempted in
\* the order Jenkins post-back, Slack notification, pull request; the pull
\* request only with a non-empty pipeline patch and with GITHUB_TOKEN and
\* GITHUB_REPO configured; a second Slack notification only after a pull
\* request was created; no outcome of a side effect stops the later ones,
\* and the call returns the analysis.
C16_SideEffectOrder ==
  AnalyzedWithoutError =>
    /\ ppc \in {"jenkins", "slack", "github", "returned"}
    /\ IsPrefix(CalledFns, <<ANALYZER, JENKINS, SLACK, GITHUB, SLACK>>)
    /\ ppc = "slack" => Len(calls) = 2
    /\ ppc = "github" => Len(calls) = 3
    /\ ppc = "returned" =>
         /\ Len(calls) >= 3
         /\ calls[2].arg = analysis /\ calls[3].arg = analysis
         /\ result = Return(analysis)
         /\ \/ analysis = calls[1].out.event
            \/ /\ calls[1].out.event.t = "dict"
               /\ analysis = JDict(<< <<"raw", Get(calls[1].out.event, "raw")>> >>)
    /\ Len(calls) >= 4 =>
         /\ Truthy(PatchOf(analysis))
         /\ calls[4].arg = PatchOf(analysis)
         /\ env.GITHUB_TOKEN # "" /\ env.GITHUB_REPO # ""
    /\ Len(calls) >= 5 =>
         /\ ~calls[4].out.raised
         /\ Truthy(Get(calls[4].out.event, "pr_url"))

\* C16 witness: the post-back raised, the notification failed, the pull
\* request was still attempted and created, the second notification was
\* sent, and the analysis was returned
C16_Witness ==
  /\ ppc = "returned"
  /\ AnalyzedWithoutError
  /\ Len(calls) = 5
  /\ calls[2].out.raised
  /\ calls[3].out = Return(JBool(FALSE))
  /\ calls[4].out = Return(JDict(<< <<"pr_url", JStr(PR_URL)>> >>))
  /\ result = Return(analysis)

(***************************************************************************)
(* Properties of the webhook path.                                         *)
(***************************************************************************)
\* the canonical event of the payload that the handler parsed
Canonical == normalize_event(parsed).event

\* process_event_sync has normalized its argument
Normalized == ppc \notin {"off", "called"} /\ ev # NoEvent

\* C13: for a payload that the handler accepted, process_event_sync acts on
\* the source, url and logs of the canonical event of the payload.  For a
\* Jenkins-shaped payload the post-back and the notifications are given the
\* build's full_url (else url) and the analysed text is a part of the
\* build's logs; for a workflow_run payload the logs are empty and the
\* processing ends with {'error': 'no logs'}.
C13_CanonicalEventUsed ==
  (task # "none" /\ Normalized) =>
    /\ ev.source = Canonical.source
    /\ ev.url = Canonical.url
    /\ ev.logs = Canonical.logs
    /\ JenkinsShaped(parsed) =>
         LET build == Get(parsed, "build")
         IN /\ \A i \in 1..Len(calls) :
                 calls[i].fn \in {JENKINS, SLACK} =>
                   calls[i].url = (IF Truthy(Get(build, "full_url"))
                                   THEN Get(build, "full_url") ELSE Get(build, "url"))
            /\ \A i \in 1..Len(calls) :
                 calls[i].fn = ANALYZER =>
                   /\ Get(build, "logs").t = "str"
                   /\ Contains(Get(build, "logs").v, calls[i].arg.v)
    /\ GithubShaped(parsed) =>
         /\ ev.logs = JStr("")
         /\ ppc \in {"returned", "raised"} =>
              result = Return(JDict(<< <<"error", JStr("no logs")>> >>))

\* the header is the digest of the body under the secret of the server, in
\* one of the two accepted forms
WellSigned ==
  /\ env.WEBHOOK_SECRET # ""
  /\ request.header.t = "str"
  /\ \E sep \in {"=", ":"} :
       request.header.v = "sha256" \o sep \o hexdigest(env.WEBHOOK_SECRET, request.body)

\* the header is missing, or the digest of the body under the secret of the
\* server is no part of it
BadlySigned ==
  \/ env.WEBHOOK_SECRET = ""
  \/ request.header.t # "str"
  \/ ~Contains(request.header.v, hexdigest(env.WEBHOOK_SECRET, request.body))

Answered(status_code, detail) ==
  /\ hpc = "done"
  /\ response = [status |-> status_code, body |-> JDict(<< <<"detail", JStr(detail)>> >>)]

AnsweredReceived ==
  /\ hpc = "done"
  /\ response = [status |-> 200, body |-> JDict(<< <<"received", JBool(TRUE)>> >>)]

=============================================================================
